---------------------------- MODULE Spec2Model ----------------------------
(***************************************************************************)
(* Model of openpi_tpu_tools: the describe-state prober (tpu.py), the      *)
(* TPUManager remote operations (tpu.py), the rendered setup script and    *)
(* the watch-and-run reconciliation loop (watch.py).                       *)
(*                                                                         *)
(* Text (subprocess output, lifecycle state strings) is a sequence of      *)
(* one-character strings, so that lower(), strip(), splitlines() and the   *)
(* regular-expression searches of the prober are computed, not assumed.    *)
(***************************************************************************)
EXTENDS Integers, Sequences, FiniteSets, TLC

(***************************************************************************)
(* Bounds of the model.                                                    *)
(***************************************************************************)
\* Counters of the remote filesystem (appended blocks, key generations,
\* clones) saturate at this value.
MaxAppend == 2

(***************************************************************************)
(* Text helpers: str.lower, str.strip, str.splitlines, re.search.          *)
(***************************************************************************)
UpperChars ==
  <<"A", "B", "C", "D", "E", "F", "G", "H", "I", "J", "K", "L", "M",
    "N", "O", "P", "Q", "R", "S", "T", "U", "V", "W", "X", "Y", "Z">>

LowerChars ==
  <<"a", "b", "c", "d", "e", "f", "g", "h", "i", "j", "k", "l", "m",
    "n", "o", "p", "q", "r", "s", "t", "u", "v", "w", "x", "y", "z">>

LowerChar(c) ==
  IF \E i \in 1..Len(UpperChars) : UpperChars[i] = c
  THEN LowerChars[CHOOSE i \in 1..Len(UpperChars) : UpperChars[i] = c]
  ELSE c

\* str.lower()
Lower(s) == [i \in 1..Len(s) |-> LowerChar(s[i])]

\* the characters \s matches and str.strip() removes
Whitespace == {" ", "\n", "\t", "\r"}

\* the line boundaries of str.splitlines()
LineBreaks == {"\n", "\r"}

\* str.strip()
Strip(s) ==
  LET idx == {i \in 1..Len(s) : s[i] \notin Whitespace}
  IN  IF idx = {} THEN << >>
      ELSE LET lo == CHOOSE i \in idx : \A j \in idx : i <= j
               hi == CHOOSE i \in idx : \A j \in idx : j <= i
           IN  SubSeq(s, lo, hi)

\* s[i..] starts with p
MatchAt(s, i, p) ==
  /\ i >= 1
  /\ i + Len(p) - 1 <= Len(s)
  /\ SubSeq(s, i, i + Len(p) - 1) = p

\* re.search of a literal
Contains(s, p) == \E i \in 1..(Len(s) + 1) : MatchAt(s, i, p)

\* re.search(r"a\s*b", s) for literals a and b
ContainsGap(s, a, b) ==
  \E i \in 1..(Len(s) + 1) :
    /\ MatchAt(s, i, a)
    /\ \E k \in 0..Len(s) :
         /\ \A j \in (i + Len(a))..(i + Len(a) + k - 1) :
              j <= Len(s) /\ s[j] \in Whitespace
         /\ MatchAt(s, i + Len(a) + k, b)

\* s.splitlines()[-1] for a stripped, non-empty s
LastLine(s) ==
  LET brk == {i \in 1..Len(s) : s[i] \in LineBreaks}
  IN  IF brk = {} THEN s
      ELSE LET last == CHOOSE i \in brk : \A j \in brk : j <= i
           IN  SubSeq(s, last + 1, Len(s))

(***************************************************************************)
(* Lifecycle state strings and the patterns of the prober.                 *)
(***************************************************************************)
S_READY == <<"R", "E", "A", "D", "Y">>
S_NOT_FOUND == <<"N", "O", "T", "_", "F", "O", "U", "N", "D">>
S_PREEMPTED == <<"P", "R", "E", "E", "M", "P", "T", "E", "D">>
S_STOPPED == <<"S", "T", "O", "P", "P", "E", "D">>
S_PERMISSION_DENIED ==
  <<"P", "E", "R", "M", "I", "S", "S", "I", "O", "N", "_", "D", "E", "N", "I", "E", "D">>
S_ERROR == <<"E", "R", "R", "O", "R">>
S_UNKNOWN == <<"U", "N", "K", "N", "O", "W", "N">>
S_INVALID_ZONE == <<"I", "N", "V", "A", "L", "I", "D", "_", "Z", "O", "N", "E">>
S_CREATING == <<"C", "R", "E", "A", "T", "I", "N", "G">>

P_not == <<"n", "o", "t">>
P_found == <<"f", "o", "u", "n", "d">>
P_404 == <<"4", "0", "4">>
P_permission_denied ==
  <<"p", "e", "r", "m", "i", "s", "s", "i", "o", "n", "_", "d", "e", "n", "i", "e", "d">>
P_forbidden == <<"f", "o", "r", "b", "i", "d", "d", "e", "n">>
P_403 == <<"4", "0", "3">>
P_invalid_zone ==
  <<"i", "n", "v", "a", "l", "i", "d", " ", "v", "a", "l", "u", "e", " ",
    "f", "o", "r", " ", "[", "-", "-", "z", "o", "n", "e", "]">>
P_argument_zone ==
  <<"a", "r", "g", "u", "m", "e", "n", "t", " ", "-", "-", "z", "o", "n", "e">>

\* re.search(r"not\s*found|404", out)
SearchNotFound(out) == ContainsGap(out, P_not, P_found) \/ Contains(out, P_404)

\* re.search(r"permission_denied|forbidden|403", out)
SearchPermission(out) ==
  \/ Contains(out, P_permission_denied)
  \/ Contains(out, P_forbidden)
  \/ Contains(out, P_403)

\* re.search(r"invalid value for \[--zone\]|argument --zone", out)
SearchInvalidZone(out) ==
  Contains(out, P_invalid_zone) \/ Contains(out, P_argument_zone)


(***************************************************************************)
(* tpu.py: the state prober.  A describe subprocess result is a record     *)
(* [returncode, stdout, stderr].                                           *)
(***************************************************************************)
\* out = (proc.stderr or proc.stdout or "").lower()
InspectedOutput(p) ==
  Lower(IF p.stderr # << >> THEN p.stderr ELSE p.stdout)

\* gcloud_describe_state searching the output without lower().
gcloud_describe_state_CaseSensitive(p) ==
  IF p.returncode = 0
  THEN [raised |-> "none", rc |-> 0,
        state |-> IF Strip(p.stdout) = << >> THEN S_UNKNOWN ELSE Strip(p.stdout)]
  ELSE LET out == IF p.stderr # << >> THEN p.stderr ELSE p.stdout
       IN  IF SearchNotFound(out)
           THEN [raised |-> "none", rc |-> 0, state |-> S_NOT_FOUND]
           ELSE IF SearchPermission(out)
           THEN [raised |-> "none", rc |-> 0, state |-> S_PERMISSION_DENIED]
           ELSE IF SearchInvalidZone(out)
           THEN [raised |-> "none", rc |-> 2, state |-> S_INVALID_ZONE]
           ELSE IF out = << >>
           THEN [raised |-> "none", rc |-> 1, state |-> S_ERROR]
           ELSE IF Strip(out) = << >>
           THEN [raised |-> "IndexError", rc |-> 1, state |-> << >>]
           ELSE [raised |-> "none", rc |-> 1, state |-> LastLine(Strip(out))]

\* _gcloud_describe_state: (rc, state), or the IndexError of [][-1]
gcloud_describe_state(p) ==
  IF p.returncode = 0
  THEN [raised |-> "none", rc |-> 0,
        state |-> IF Strip(p.stdout) = << >> THEN S_UNKNOWN ELSE Strip(p.stdout)]
  ELSE LET out == InspectedOutput(p)
       IN  IF SearchNotFound(out)
           THEN [raised |-> "none", rc |-> 0, state |-> S_NOT_FOUND]
           ELSE IF SearchPermission(out)
           THEN [raised |-> "none", rc |-> 0, state |-> S_PERMISSION_DENIED]
           ELSE IF SearchInvalidZone(out)
           THEN [raised |-> "none", rc |-> 2, state |-> S_INVALID_ZONE]
           ELSE IF out = << >>
           THEN [raised |-> "none", rc |-> 1, state |-> S_ERROR]
           ELSE IF Strip(out) = << >>
           THEN [raised |-> "IndexError", rc |-> 1, state |-> << >>]
           ELSE [raised |-> "none", rc |-> 1, state |-> LastLine(Strip(out))]

\* TPUManager.describe: the state string, or the exception raised
describe(p) ==
  LET r == gcloud_describe_state(p)
  IN  IF r.raised # "none" THEN [raised |-> r.raised, state |-> << >>]
      ELSE IF r.rc = 2 THEN [raised |-> "RuntimeError", state |-> << >>]
      ELSE IF r.rc # 0 THEN [raised |-> "none", state |-> S_ERROR]
      ELSE [raised |-> "none", state |-> r.state]

\* Results of the describe subprocess the model draws from.
DescribeResult(rc, out, err) == [returncode |-> rc, stdout |-> out, stderr |-> err]

DescribeSamples ==
  { DescribeResult(0, <<"R", "E", "A", "D", "Y", "\n">>, << >>),
    DescribeResult(0, <<"P", "R", "E", "E", "M", "P", "T", "E", "D", "\n">>, << >>),
    DescribeResult(0, <<"S", "T", "O", "P", "P", "E", "D", "\n">>, << >>),
    DescribeResult(0, <<"C", "R", "E", "A", "T", "I", "N", "G", "\n">>, << >>),
    DescribeResult(0, <<"\n">>, << >>),
    DescribeResult(0, <<"4", "0", "4">>, << >>),
    DescribeResult(0, << >>, <<"4", "0", "3">>),
    DescribeResult(1, << >>,
      <<"E", "R", "R", "O", "R", ":", " ", "N", "o", "t", " ", "F", "o", "u", "n", "d">>),
    DescribeResult(1, <<"H", "T", "T", "P", " ", "4", "0", "4">>, << >>),
    DescribeResult(1, <<"4", "0", "4">>, <<"W", "A", "R", "N">>),
    DescribeResult(1, << >>, <<"4", "0", "3", " ", "F", "o", "r", "b", "i", "d", "d", "e", "n">>),
    DescribeResult(1, << >>,
      <<"P", "E", "R", "M", "I", "S", "S", "I", "O", "N", "_", "D", "E", "N", "I", "E", "D">>),
    DescribeResult(1, << >>,
      <<"P", "e", "r", "m", "i", "s", "s", "i", "o", "n", " ", "d", "e", "n", "i", "e", "d">>),
    DescribeResult(1, << >>,
      <<"4", "0", "3", ":", " ", "n", "o", "t", " ", "f", "o", "u", "n", "d">>),
    DescribeResult(2, << >>,
      <<"a", "r", "g", "u", "m", "e", "n", "t", " ", "-", "-", "z", "o", "n", "e", ":", " ", "b", "a", "d">>),
    DescribeResult(1, << >>,
      <<"I", "n", "v", "a", "l", "i", "d", " ", "v", "a", "l", "u", "e", " ",
        "f", "o", "r", " ", "[", "-", "-", "z", "o", "n", "e", "]">>),
    DescribeResult(1, << >>, <<"\n">>),
    DescribeResult(124, << >>, << >>),
    DescribeResult(1, << >>, <<"a", "\n", "b", "o", "o", "m">>) }

\* describe on each of the samples
DescribeTable == [p \in DescribeSamples |-> describe(p)]

\* No describe has run yet.
NoProc == [returncode |-> -1, stdout |-> << >>, stderr |-> << >>]

(***************************************************************************)
(* watch.py / tpu.py: chip count to create parameters.                     *)
(***************************************************************************)
\* _map_v4_topology: the topology, or "SystemExit"
map_v4_topology(tpu_num) ==
  IF tpu_num = 4 THEN "2x2x1"
  ELSE IF tpu_num = 8 THEN "2x2x2"
  ELSE IF tpu_num = 16 THEN "2x2x4"
  ELSE IF tpu_num = 32 THEN "2x4x4"
  ELSE "SystemExit"

\* create_raises taking any chip count for v5, as for v6.
create_raises_V5Unchecked(version, tpu_num, topology) ==
  IF version = "v4"
  THEN IF topology = "None" THEN "ValueError" ELSE "none"
  ELSE "none"

\* TPUManager.create, up to run_streaming(args): the exception raised by the
\* argument construction, or "none"
create_raises(version, tpu_num, topology) ==
  IF version = "v4"
  THEN IF topology = "None" THEN "ValueError" ELSE "none"
  ELSE IF version = "v5"
  THEN IF tpu_num \in {16, 32, 64} THEN "none" ELSE "ValueError"
  ELSE "none"

\* accel = {16: ..., 32: ..., 64: ...}.get(tpu_num), tpu.py 171
V5Accel(tpu_num) ==
  IF tpu_num = 16 THEN "v5litepod-16"
  ELSE IF tpu_num = 32 THEN "v5litepod-32"
  ELSE IF tpu_num = 64 THEN "v5litepod-64"
  ELSE "None"

\* TPUManager.create, lines 167-177: the arguments that follow the common
\* ones, for a call that does not raise.
create_args(version, tpu_num, topology) ==
  IF version = "v4"
  THEN <<"--type", "v4", "--topology", topology, "--version", "tpu-ubuntu2204-base">>
  ELSE IF version = "v5"
  THEN <<"--accelerator-type", V5Accel(tpu_num), "--version", "v2-alpha-tpuv5-lite">>
  ELSE <<"--accelerator-type", "v6e-" \o ToString(tpu_num), "--version", "v2-alpha-tpuv6e">>

(***************************************************************************)
(* watch.py: the rendered setup script, run on the remote filesystem.      *)
(* The remote filesystem of the TPU VM is a record:                        *)
(*   zshrc       blocks of export lines appended to ~/.zshrc               *)
(*   known_hosts ssh-keyscan outputs appended to ~/.ssh/known_hosts        *)
(*   has_key     the deploy key file exists                                *)
(*   keygens     ssh-keygen runs                                           *)
(*   ssh_hosts   "Host github-<repo>" blocks in ~/.ssh/config              *)
(*   has_repo    <repo>/.git exists                                        *)
(*   clones      successful git clone runs                                 *)
(***************************************************************************)
Inc(n) == IF n < MaxAppend THEN n + 1 ELSE n

FreshFS ==
  [zshrc |-> 0, known_hosts |-> 0, has_key |-> FALSE, keygens |-> 0,
   ssh_hosts |-> 0, has_repo |-> FALSE, clones |-> 0]

\* What the remote commands of one run of the script do.
SetupInputs ==
  [curl_ok : BOOLEAN, keyscan_ok : BOOLEAN, http : {201, 422, 500},
   clone_ok : BOOLEAN, sync_ok : BOOLEAN]

\* The script of _build_setup_script under "set -euo pipefail":
\* the filesystem it leaves and its exit code.
build_setup_script(f, in) ==
  LET \* 1. echo 'export ...' >> ~/.zshrc (unconditional)
      f1 == [f EXCEPT !.zshrc = Inc(f.zshrc)]
      \* ssh-keygen only if the key file is missing
      f2 == IF f1.has_key THEN f1
            ELSE [f1 EXCEPT !.has_key = TRUE, !.keygens = Inc(f1.keygens)]
      \* ssh-keyscan ... >> ~/.ssh/known_hosts || true (unconditional)
      f3 == IF in.keyscan_ok
            THEN [f2 EXCEPT !.known_hosts = Inc(f2.known_hosts)] ELSE f2
      \* Host block only if grep does not find it
      f4 == IF f3.ssh_hosts = 0 THEN [f3 EXCEPT !.ssh_hosts = 1] ELSE f3
      \* git clone ... || true, only if <repo>/.git is missing
      f5 == IF ~f4.has_repo /\ in.clone_ok
            THEN [f4 EXCEPT !.has_repo = TRUE, !.clones = Inc(f4.clones)] ELSE f4
  IN  IF ~in.curl_ok THEN [fs |-> f1, rc |-> 1]
      ELSE IF in.http \notin {201, 422} THEN [fs |-> f3, rc |-> 1]
      ELSE IF f4.has_repo THEN [fs |-> f4, rc |-> 0]
      ELSE IF ~f5.has_repo THEN [fs |-> f5, rc |-> 1]
      ELSE IF ~in.sync_ok THEN [fs |-> f5, rc |-> 1]
      ELSE [fs |-> f5, rc |-> 0]

(***************************************************************************)
(* The watch configuration and the state of the loop.                      *)
(***************************************************************************)
Versions == {"v4", "v5", "v6"}

\* chip counts: 8 (v4 only), 16 (v4 and v5), 48 (neither)
TpuNums == {8, 16, 48}

WatchConfig == [version : Versions, force_run : BOOLEAN, tpu_num : TpuNums]

\* exit codes of the streamed remote commands (255: ssh could not connect)
ExitCodes == {0, 1, 255}

\* the TPU as the cloud has it
TpuStates == {"ABSENT", "CREATING", "READY", "PREEMPTED", "STOPPED"}

VARIABLES
  cfg,        \* WatchConfig, immutable
  pc,         \* position of watch_and_run
  state,      \* local "state" of watch_and_run (<< >>: unbound)
  run_setup_and_training,  \* local flag of watch_and_run
  exc,        \* exception that ended watch_and_run, or "none"
  proc,       \* result of the last describe subprocess
  calls,      \* remote calls of the current iteration: <<[op, rc], ...>>
  tpu,        \* the TPU as the cloud has it
  fs,         \* remote filesystem of the TPU VM
  launched,   \* the training command has run to exit 0 on this TPU VM
  initialized, \* a run of the setup script has exited 0 on this TPU VM
  hung,       \* the process is blocked in a subprocess that never returns
  chips,      \* a chip count on its way to the arguments of create
  activity,   \* a call of TPUManager.check_activity
  environ,    \* os.environ of a tpu-tools command
  cli         \* a tpu-tools command: cli.main

vars ==
  <<cfg, pc, state, run_setup_and_training, exc, proc, calls, tpu, fs, launched,
    initialized, hung, chips, activity, environ, cli>>

\* the variables of the watch loop, and the others
watchVars ==
  <<cfg, pc, state, run_setup_and_training, exc, proc, calls, tpu, fs, launched,
    initialized, hung>>

libVars == <<chips, activity, environ, cli>>

\* Nothing but the watch loop is running.
NoRequest == [version |-> "v6", tpu_num |-> 0, done |-> FALSE, raised |-> "none", args |-> << >>]
NoProbe == [proc |-> NoProc, done |-> FALSE, busy |-> FALSE]
NoEnviron == [n \in {} |-> << >>]
NoConfig == [n \in {} |-> << >>]
NoCommand ==
  [cmd |-> "none", at |-> "off", env |-> NoConfig, raised |-> "none",
   remote |-> << >>, code |-> -1]

LibOff ==
  /\ chips = NoRequest
  /\ activity = NoProbe
  /\ environ = NoEnviron
  /\ cli = NoCommand

Call(op, rc) == [op |-> op, rc |-> rc]

Running == {"poll", "delete", "create", "grace", "setup", "launch", "sleep"}

Init ==
  /\ cfg \in WatchConfig
  /\ pc = "start"
  /\ state = << >>
  /\ run_setup_and_training = FALSE
  /\ exc = "none"
  /\ proc = NoProc
  /\ calls = << >>
  /\ tpu \in TpuStates
  /\ fs = FreshFS
  /\ launched = FALSE
  /\ initialized = FALSE
  /\ hung = FALSE
  /\ LibOff

\* No watch loop is running.
WatchOff ==
  /\ cfg = [version |-> "v6", force_run |-> FALSE, tpu_num |-> 8]
  /\ pc = "off"
  /\ state = << >>
  /\ run_setup_and_training = FALSE
  /\ exc = "none"
  /\ proc = NoProc
  /\ calls = << >>
  /\ tpu = "ABSENT"
  /\ fs = FreshFS
  /\ launched = FALSE
  /\ initialized = FALSE
  /\ hung = FALSE

\* watch_and_run, lines 139-162: the banner; for v4 it maps the topology.
Start ==
  /\ pc = "start"
  /\ IF cfg.version = "v4" /\ map_v4_topology(cfg.tpu_num) = "SystemExit"
     THEN pc' = "fatal" /\ exc' = "SystemExit"
     ELSE pc' = "poll" /\ exc' = exc
  /\ UNCHANGED <<cfg, hung, state, run_setup_and_training, proc, calls, tpu, fs, launched, initialized>>
  /\ UNCHANGED libVars

\* Decide with the READY branch ignoring the force flag.
Decide_ReadyAlwaysRuns(st, c) ==
  IF st \in {S_NOT_FOUND, S_PREEMPTED, S_STOPPED}
  THEN IF st # S_NOT_FOUND THEN "delete" ELSE "create"
  ELSE IF st = S_PERMISSION_DENIED THEN "sleep"
  ELSE IF st = S_READY THEN "setup"
  ELSE "sleep"

\* Decide with a delete before the create for NOT_FOUND too.
Decide_DeletesNotFound(st, c) ==
  IF st \in {S_NOT_FOUND, S_PREEMPTED, S_STOPPED}
  THEN "delete"
  ELSE IF st = S_PERMISSION_DENIED THEN "sleep"
  ELSE IF st = S_READY THEN (IF c.force_run THEN "setup" ELSE "sleep")
  ELSE "sleep"

\* The branch on the observed state, lines 175-201: where the iteration goes.
Decide(st, c) ==
  IF st \in {S_NOT_FOUND, S_PREEMPTED, S_STOPPED}
  THEN IF st # S_NOT_FOUND THEN "delete" ELSE "create"
  ELSE IF st = S_PERMISSION_DENIED THEN "sleep"
  ELSE IF st = S_READY THEN (IF c.force_run THEN "setup" ELSE "sleep")
  ELSE "sleep"

\* PollExcept falling through to the branch on the state of the previous
\* iteration.
PollExcept_StaleState(raised) == Decide(state, cfg)

\* Lines 168-171: "except Exception" of the poll step prints the exception of
\* describe, sleeps and continues.
PollExcept(raised) == "sleep"

\* Lines 165-201: describe, then the branch on the state.
Poll(p) ==
  /\ pc = "poll"
  /\ proc' = p
  /\ calls' = <<Call("describe", p.returncode)>>
  /\ LET d == DescribeTable[p]
     IN  IF d.raised # "none"
         THEN /\ pc' = PollExcept(d.raised)
              /\ UNCHANGED <<state, run_setup_and_training, exc>>
         ELSE /\ state' = d.state
              /\ run_setup_and_training' = (d.state = S_READY /\ cfg.force_run)
              /\ pc' = Decide(d.state, cfg)
              /\ exc' = exc
  /\ UNCHANGED <<cfg, hung, tpu, fs, launched, initialized>>
  /\ UNCHANGED libVars

\* AfterDelete without the check of the result of delete.
AfterDelete_Unchecked(rc) == "create"

\* TPUManager.delete returns rc == 0; lines 179-182 of the loop.
AfterDelete(rc) == IF rc = 0 THEN "create" ELSE "sleep"

\* The delete command succeeds only when the cloud has a TPU of that name.
Delete(rc) ==
  /\ pc = "delete"
  /\ ~hung
  /\ rc = 0 => tpu # "ABSENT"
  /\ calls' = Append(calls, Call("delete", rc))
  /\ tpu' = IF rc = 0 THEN "ABSENT" ELSE tpu
  /\ launched' = IF rc = 0 THEN FALSE ELSE launched
  /\ pc' = AfterDelete(rc)
  /\ UNCHANGED <<cfg, hung, state, run_setup_and_training, exc, proc, fs, initialized>>
  /\ UNCHANGED libVars

\* Line 184: topo = _map_v4_topology(tpu_num) if version == "v4" else None
Topology(c) == IF c.version = "v4" THEN map_v4_topology(c.tpu_num) ELSE "None"

\* AfterCreate giving the loop up on a failed create.
AfterCreate_GivesUp(rc) == IF rc = 0 THEN "grace" ELSE "fatal"

\* TPUManager.create returns rc == 0; lines 185-188 of the loop.
AfterCreate(rc) == IF rc = 0 THEN "grace" ELSE "sleep"

\* Lines 183-188: the topology, the arguments of create, then the subprocess.
\* The create command succeeds only when the cloud has no TPU of that name.
Create(rc) ==
  /\ pc = "create"
  /\ ~hung
  /\ IF Topology(cfg) = "SystemExit"
     THEN /\ pc' = "fatal" /\ exc' = "SystemExit"
          /\ UNCHANGED <<calls, tpu, fs, launched, initialized>>
     ELSE IF create_raises(cfg.version, cfg.tpu_num, Topology(cfg)) # "none"
     THEN /\ pc' = "fatal"
          /\ exc' = create_raises(cfg.version, cfg.tpu_num, Topology(cfg))
          /\ UNCHANGED <<calls, tpu, fs, launched, initialized>>
     ELSE /\ rc = 0 => tpu = "ABSENT"
          /\ calls' = Append(calls, Call("create", rc))
          /\ IF rc = 0
             THEN /\ tpu' \in {"CREATING", "READY"}
                  /\ fs' = FreshFS
                  /\ launched' = FALSE
                  /\ initialized' = FALSE
             ELSE UNCHANGED <<tpu, fs, launched, initialized>>
          /\ pc' = AfterCreate(rc)
          /\ exc' = exc
  /\ UNCHANGED <<cfg, hung, state, run_setup_and_training, proc>>
  /\ UNCHANGED libVars

\* Lines 189-191: sleep(10); run_setup_and_training = True
Grace ==
  /\ pc = "grace"
  /\ run_setup_and_training' = TRUE
  /\ pc' = IF run_setup_and_training' THEN "setup" ELSE "sleep"
  /\ UNCHANGED <<cfg, hung, state, exc, proc, calls, tpu, fs, launched, initialized>>
  /\ UNCHANGED libVars

\* AfterSetup without the check of the exit code of the setup.
AfterSetup_Unchecked(rc) == "launch"

\* Lines 205-209: rc = run_setup(...); rc != 0 goes back to the state check.
AfterSetup(rc) == IF rc # 0 THEN "sleep" ELSE "launch"

\* run_setup on all workers: ssh reaches the VM only when it is READY
\* (otherwise 255), and then the script runs on its filesystem.
Setup(conn, in) ==
  /\ pc = "setup"
  /\ ~hung
  /\ conn => tpu = "READY"
  /\ LET r == IF conn THEN build_setup_script(fs, in) ELSE [fs |-> fs, rc |-> 255]
     IN  /\ fs' = r.fs
         /\ calls' = Append(calls, Call("setup", r.rc))
         /\ pc' = AfterSetup(r.rc)
         /\ initialized' = (initialized \/ r.rc = 0)
  /\ UNCHANGED <<cfg, hung, state, run_setup_and_training, exc, proc, tpu, launched>>
  /\ UNCHANGED libVars

\* Lines 220-228: "if not mgr.raw(...)" on the exit code of the launch, then
\* the return of force-run mode.
AfterLaunch(rc, c) ==
  IF ~(rc # 0) THEN "sleep"
  ELSE IF c.force_run THEN "returned"
  ELSE "sleep"

\* The training command on all workers; it exits 0 only on a READY VM.
Launch(rc) ==
  /\ pc = "launch"
  /\ ~hung
  /\ rc = 0 => tpu = "READY"
  /\ calls' = Append(calls, Call("launch", rc))
  /\ launched' = (launched \/ rc = 0)
  /\ pc' = AfterLaunch(rc, cfg)
  /\ UNCHANGED <<cfg, hung, state, run_setup_and_training, exc, proc, tpu, fs, initialized>>
  /\ UNCHANGED libVars

\* sleep(mgr.sleep_secs), then the next iteration of "while True".
Sleep ==
  /\ pc = "sleep"
  /\ pc' = "poll"
  /\ UNCHANGED <<cfg, hung, state, run_setup_and_training, exc, proc, calls, tpu, fs, launched, initialized>>
  /\ UNCHANGED libVars

\* SignalOutcome with the poll step catching the exception of the handler
\* as it catches the exceptions of describe.
SignalOutcome_CaughtInPoll(at) == IF at = "poll" THEN "sleep" ELSE "signalled"

\* Where the SystemExit(0) of handle_sig ends up when it is raised at step
\* "at": SystemExit is not an Exception, so "except Exception" of the poll
\* step (watch.py 168) lets it pass, and so does "except KeyboardInterrupt"
\* of run_streaming (ssh.py 67) around delete, create, setup and launch.
SignalOutcome(at) == "signalled"

\* handle_sig: SIGINT/SIGTERM raise SystemExit(0) wherever the loop is.
Signal ==
  /\ pc \in Running
  /\ pc' = SignalOutcome(pc)
  /\ exc' = "SystemExit0"
  /\ hung' = FALSE
  /\ UNCHANGED <<cfg, state, run_setup_and_training, proc, calls, tpu, fs, launched, initialized>>
  /\ UNCHANGED libVars

\* The executor each remote operation of the loop runs through:
\* _gcloud_describe_state calls run_with_timeout (tpu.py 28), which wraps the
\* command in "timeout -k"; delete and create call run_streaming (tpu.py 93,
\* 179) and setup and launch go through raw and gcloud_tpu_ssh_stream to
\* run_streaming (ssh.py 175), a bare subprocess.run without a timeout.
Executor(op) == IF op = "describe" THEN "run_with_timeout" ELSE "run_streaming"

\* A remote command that never returns: run_streaming waits for it for ever.
\* (Under run_with_timeout the command is killed and describe sees the exit
\* code 124, one of DescribeSamples.)  A signal still ends the process.
Hang ==
  /\ pc \in {"delete", "create", "setup", "launch"}
  /\ Executor(pc) = "run_streaming"
  /\ ~hung
  /\ hung' = TRUE
  /\ UNCHANGED <<cfg, pc, state, run_setup_and_training, exc, proc, calls, tpu, fs, launched, initialized>>
  /\ UNCHANGED libVars

\* The exit status of the watch process, -1 while it runs: main returns 0
\* after watch_and_run returns, SystemExit(0) exits 0, SystemExit(message)
\* and an uncaught exception exit 1.
ExitStatusOf(end, e) ==
  IF end = "returned" THEN 0
  ELSE IF end = "signalled" THEN (IF e = "SystemExit0" THEN 0 ELSE 1)
  ELSE IF end = "fatal" THEN 1
  ELSE -1

ExitStatus == ExitStatusOf(pc, exc)

(***************************************************************************)
(* The cloud, while the watch process lives: provisioning completes, spot  *)
(* TPUs are preempted, an operator stops the TPU ("stop" of the CLI).      *)
(***************************************************************************)
Alive == pc \in Running \cup {"start"}

Provisioned ==
  /\ Alive
  /\ tpu = "CREATING"
  /\ tpu' = "READY"
  /\ UNCHANGED <<cfg, hung, pc, state, run_setup_and_training, exc, proc, calls, fs, launched, initialized>>
  /\ UNCHANGED libVars

Preempted ==
  /\ Alive
  /\ tpu \in {"CREATING", "READY"}
  /\ tpu' = "PREEMPTED"
  /\ launched' = FALSE
  /\ UNCHANGED <<cfg, hung, pc, state, run_setup_and_training, exc, proc, calls, fs, initialized>>
  /\ UNCHANGED libVars

Stopped ==
  /\ Alive
  /\ tpu = "READY"
  /\ tpu' = "STOPPED"
  /\ launched' = FALSE
  /\ UNCHANGED <<cfg, hung, pc, state, run_setup_and_training, exc, proc, calls, fs, initialized>>
  /\ UNCHANGED libVars

Next ==
  \/ Start
  \/ \E p \in DescribeSamples : Poll(p)
  \/ \E rc \in ExitCodes : Delete(rc)
  \/ \E rc \in ExitCodes : Create(rc)
  \/ Grace
  \/ \E conn \in BOOLEAN, in \in SetupInputs : Setup(conn, in)
  \/ \E rc \in ExitCodes : Launch(rc)
  \/ Sleep
  \/ Signal
  \/ Hang
  \/ Provisioned
  \/ Preempted
  \/ Stopped

Spec == Init /\ [][Next]_vars

(***************************************************************************)
(* Properties of the watch loop.                                           *)
(***************************************************************************)
Last(s) == s[Len(s)]

Ops == {calls[i].op : i \in 1..Len(calls)}

\* The describe of the current iteration returned a state (did not raise).
Observed == calls # << >> /\ DescribeTable[proc].raised = "none"

\* The iteration is over: the loop sleeps, is about to describe again, or
\* was ended by a signal.
BackToPoll == pc \in {"sleep", "poll", "signalled"}

\* C1: an iteration that observes READY with force-run false, or
\* PERMISSION_DENIED, or any state outside {NOT_FOUND, PREEMPTED, STOPPED,
\* READY}, issues no remote call besides its describe: no delete, create,
\* setup or launch before the next describe.
C1_IdleIterationMutatesNothing ==
  (/\ Observed
   /\ \/ state = S_READY /\ ~cfg.force_run
      \/ state = S_PERMISSION_DENIED
      \/ state \notin {S_NOT_FOUND, S_PREEMPTED, S_STOPPED, S_READY})
  => (calls = <<Call("describe", proc.returncode)>> /\ BackToPoll)

\* C1 witness: READY was observed with force-run false, the iteration is
\* over and the next describe is due.
C1_Witness ==
  /\ Observed /\ state = S_READY /\ ~cfg.force_run
  /\ pc = "poll" /\ Len(calls) = 1

\* The last remote call of the iteration is a delete that failed.
DeleteFailed ==
  calls # << >> /\ Last(calls).op = "delete" /\ Last(calls).rc # 0

\* C2: when the delete of an iteration fails, no create, setup or launch
\* follows in that iteration: the loop goes to its sleep, then to the poll
\* step, and the next remote call is a describe.
C2_FailedDeleteEndsIteration ==
  [][/\ DeleteFailed' => state' \in {S_PREEMPTED, S_STOPPED} /\ BackToPoll'
     /\ (pc = "delete" /\ DeleteFailed') => pc' = "sleep"
     /\ (DeleteFailed /\ calls' # calls)
          => (pc = "poll" /\ calls' = <<Call("describe", proc'.returncode)>>)]_vars

\* C2 witness: a delete failed, the loop has slept and is about to describe.
C2_Witness == DeleteFailed /\ pc = "poll" /\ Len(calls) = 2

\* C3 (as claimed): after the launch command has run, a non-zero exit sends
\* the loop back to poll without terminating it, an exit of 0 with force-run
\* terminates the loop, an exit of 0 without force-run keeps it polling.
C3_LaunchExitCodeDecides ==
  (calls # << >> /\ Last(calls).op = "launch")
  => /\ Last(calls).rc # 0 => BackToPoll
     /\ (Last(calls).rc = 0 /\ cfg.force_run) => pc = "returned"
     /\ (Last(calls).rc = 0 /\ ~cfg.force_run) => BackToPoll

\* C4 (as claimed): a describe whose output matches the invalid-zone pattern
\* ends the loop with the fatal error of the prober; the loop does not sleep
\* and poll again.
C4_InvalidZoneIsFatal ==
  (calls # << >> /\ DescribeTable[proc].raised = "RuntimeError")
  => (pc = "fatal" /\ exc = "RuntimeError")

\* C5 (as claimed): when the fatal error of an unsupported chip count is
\* raised in the watch loop, no describe, delete or create subprocess has
\* run.
C5_ChipCountFatalBeforeAnyRemoteCall ==
  (pc = "fatal" /\ exc \in {"SystemExit", "ValueError"}) => calls = << >>

(***************************************************************************)
(* Properties of the state prober, on the describe result of the current   *)
(* iteration.                                                              *)
(***************************************************************************)
T_not_found == <<"n", "o", "t", " ", "f", "o", "u", "n", "d">>
T_permission_denied == <<"p", "e", "r", "m", "i", "s", "s", "i", "o", "n", " ", "d", "e", "n", "i", "e", "d">>

\* stdout or stderr carries the text, in any letter case
Carries(p, text) ==
  Contains(Lower(p.stdout), text) \/ Contains(Lower(p.stderr), text)

\* the stream the prober reads on a non-zero exit carries the text
InspectedCarries(p, text) ==
  IF p.stderr # << >> THEN Contains(Lower(p.stderr), text)
  ELSE Contains(Lower(p.stdout), text)

\* the state the poll step got from describe is st
Probed(st) == Observed /\ state = st

\* C6 (as claimed): every describe result whose stdout or stderr contains
\* "404" or "not found", in any letter case, is mapped to NOT_FOUND,
\* whatever the exit code.
C6_NotFoundWhateverExitCode ==
  (calls # << >> /\ (Carries(proc, P_404) \/ Carries(proc, T_not_found)))
  => Probed(S_NOT_FOUND)

\* C6 (amended): on a non-zero exit, a describe result is mapped to
\* NOT_FOUND whenever the stream the prober reads (stderr if it is not
\* empty, stdout otherwise) contains "404" or "not found" in any letter
\* case.
C6_NotFoundOnFailure ==
  (/\ calls # << >>
   /\ proc.returncode # 0
   /\ InspectedCarries(proc, P_404) \/ InspectedCarries(proc, T_not_found))
  => Probed(S_NOT_FOUND)

\* C6 witness: a failed describe whose stderr carries "not found" in mixed
\* case only was mapped to NOT_FOUND.
C6_Witness ==
  /\ Probed(S_NOT_FOUND)
  /\ proc.returncode # 0
  /\ proc.stderr # << >>
  /\ ~Contains(proc.stderr, T_not_found)
  /\ Contains(Lower(proc.stderr), T_not_found)

\* C7 (as claimed), on the results where nothing else competes (non-zero
\* exit, no not-found text): a describe result whose inspected stream
\* contains "403", "forbidden", "permission_denied" or "permission denied",
\* in any letter case, is mapped to PERMISSION_DENIED, and the loop treats
\* it as a state: it sleeps and polls again.
C7_PermissionTextMapsToDenied ==
  (/\ calls # << >>
   /\ proc.returncode # 0
   /\ ~Carries(proc, P_404) /\ ~Carries(proc, T_not_found)
   /\ \/ InspectedCarries(proc, P_403)
      \/ InspectedCarries(proc, P_forbidden)
      \/ InspectedCarries(proc, P_permission_denied)
      \/ InspectedCarries(proc, T_permission_denied))
  => (Probed(S_PERMISSION_DENIED) /\ BackToPoll)

(***************************************************************************)
(* Properties of the setup script.                                         *)
(***************************************************************************)
\* a run of the setup script exits 0 in this step
SetupSucceeds ==
  /\ pc = "setup"
  /\ calls' # calls
  /\ Last(calls').op = "setup" /\ Last(calls').rc = 0

\* C8 (as claimed): a run of the setup script on the filesystem left by a
\* successful run changes nothing: no line appended again to ~/.zshrc,
\* known_hosts or the SSH config, no key generated again, no second clone.
C8_SetupIdempotent ==
  [][(initialized /\ SetupSucceeds) => fs' = fs]_vars

(***************************************************************************)
(* Freshness of the decisions of the loop.                                 *)
(***************************************************************************)
\* the create of this iteration succeeded
CreateSucceeded ==
  \E i \in 1..Len(calls) : calls[i].op = "create" /\ calls[i].rc = 0

\* the setup of this iteration exited 0
SetupSucceeded ==
  \E i \in 1..Len(calls) : calls[i].op = "setup" /\ calls[i].rc = 0

\* C10: every delete, create, setup and launch follows a describe of its own
\* iteration that returned a state, and is decided by that state and the
\* watch configuration alone: the state the loop acts on is the one that
\* describe returned, delete needs PREEMPTED or STOPPED, create needs
\* NOT_FOUND, PREEMPTED or STOPPED, setup needs a successful create or READY
\* with force-run, launch needs a successful setup, and the flag that gates
\* setup and launch was set in this iteration.
C10_ActionsFromFreshState ==
  /\ calls # << >> =>
       /\ calls[1] = Call("describe", proc.returncode)
       /\ \A i \in 2..Len(calls) : calls[i].op # "describe"
  /\ (Len(calls) > 1 \/ pc \in {"delete", "create", "grace", "setup", "launch"}) =>
       /\ Observed
       /\ state = describe(proc).state
       /\ ("delete" \in Ops \/ pc = "delete") => state \in {S_PREEMPTED, S_STOPPED}
       /\ ("create" \in Ops \/ pc = "create")
            => state \in {S_NOT_FOUND, S_PREEMPTED, S_STOPPED}
       /\ ("setup" \in Ops \/ pc = "setup")
            => (CreateSucceeded \/ (state = S_READY /\ cfg.force_run))
       /\ ("launch" \in Ops \/ pc = "launch") => SetupSucceeded
       /\ run_setup_and_training
            => (CreateSucceeded \/ (state = S_READY /\ cfg.force_run))
       /\ ("setup" \in Ops \/ pc = "setup") => run_setup_and_training

\* C10 witness: a launch was issued in an iteration that observed PREEMPTED,
\* after a delete, a create and a setup of the same iteration.
C10_Witness ==
  /\ Len(calls) = 5
  /\ Last(calls).op = "launch"
  /\ state = S_PREEMPTED

(***************************************************************************)
(* Retries of the loop.                                                    *)
(***************************************************************************)
\* the last remote call of the iteration failed in one of the ways the loop
\* retries: describe raised, or returned ERROR or PERMISSION_DENIED; delete,
\* create or setup exited non-zero
TransientFailure ==
  /\ calls # << >>
  /\ \/ /\ Len(calls) = 1
        /\ \/ DescribeTable[proc].raised # "none"
           \/ state \in {S_ERROR, S_PERMISSION_DENIED}
     \/ /\ Last(calls).op \in {"delete", "create", "setup"}
        /\ Last(calls).rc # 0

\* C11: a remote call that fails in one of these ways - a describe that
\* raises or returns ERROR or PERMISSION_DENIED, a non-zero exit of delete,
\* create or setup - puts the loop to sleep, with or without force-run, and
\* the sleep is followed by the next describe (or by a signal) and nothing
\* else; the loop counts no retries.
C11_TransientFailureRetries ==
  [][ /\ (calls' # calls /\ TransientFailure') => pc' = "sleep"
      /\ (pc = "sleep" /\ pc' # pc) => pc' \in {"poll", "signalled"} ]_vars

\* C11 witness: in supervised mode a setup exited non-zero, the loop slept
\* and is about to describe again.
C11_Witness ==
  /\ TransientFailure
  /\ Last(calls).op = "setup"
  /\ ~cfg.force_run
  /\ pc = "poll"

(***************************************************************************)
(* Signals.                                                                *)
(***************************************************************************)
\* C12: when SIGINT or SIGTERM reaches the running loop - at the poll, in a
\* sleep or the grace wait, or at a delete, create, setup or launch - the
\* process ends with exit status 0, and from then on no remote call is
\* issued and nothing is undone: the calls of the iteration, the TPU and the
\* remote filesystem stay as the signal found them.
C12_SignalTerminates ==
  [][ /\ exc' = "SystemExit0" => (pc' = "signalled" /\ ExitStatus' = 0)
      /\ exc = "SystemExit0" => UNCHANGED <<pc, calls, tpu, fs, launched>> ]_vars

\* C12 witness: the signal arrived after the delete of the iteration had
\* succeeded and before its create: the TPU is gone and is not recreated.
C12_Witness ==
  /\ pc = "signalled"
  /\ exc = "SystemExit0"
  /\ Len(calls) = 2
  /\ Last(calls) = Call("delete", 0)
  /\ tpu = "ABSENT"

(***************************************************************************)
(* The order of the remote calls of one iteration.                         *)
(***************************************************************************)
\* the places of the calls of an operation among the calls of the iteration
CallsOf(op) == {i \in 1..Len(calls) : calls[i].op = op}

\* C18: in an iteration, a delete is issued only after describe returned
\* PREEMPTED or STOPPED, a create only after it returned NOT_FOUND,
\* PREEMPTED or STOPPED; there is at most one delete and at most one create;
\* and a create that follows a delete follows a delete that exited 0.
C18_DeleteCreateDiscipline ==
  /\ Cardinality(CallsOf("delete")) <= 1
  /\ Cardinality(CallsOf("create")) <= 1
  /\ (CallsOf("delete") # {} \/ pc = "delete") =>
       (Observed /\ state \in {S_PREEMPTED, S_STOPPED})
  /\ (CallsOf("create") # {} \/ pc = "create") =>
       (Observed /\ state \in {S_NOT_FOUND, S_PREEMPTED, S_STOPPED})
  /\ \A d \in CallsOf("delete") :
       /\ \A k \in CallsOf("create") : d < k /\ calls[d].rc = 0
       /\ pc = "create" => calls[d].rc = 0

\* C18 witness: describe returned STOPPED, the delete exited 0 and the
\* create was issued after it.
C18_Witness ==
  /\ Len(calls) >= 3
  /\ state = S_STOPPED
  /\ calls[2] = Call("delete", 0)
  /\ calls[3].op = "create"

\* what C19 says of the calls of the iteration so far
SetupLaunchInOrder ==
  /\ Cardinality(CallsOf("setup")) <= 1
  /\ Cardinality(CallsOf("launch")) <= 1
  /\ \A i \in CallsOf("setup") :
       \/ \E k \in 1..(i - 1) : calls[k] = Call("create", 0)
       \/ (Observed /\ state = S_READY /\ cfg.force_run /\ CallsOf("create") = {})
  /\ \A i \in CallsOf("launch") :
       \E k \in 1..(i - 1) : calls[k] = Call("setup", 0)
  /\ \A i \in CallsOf("create") \cup CallsOf("setup") :
       calls[i].rc # 0 => (i = Len(calls) /\ pc \in {"sleep", "poll", "signalled"})

\* C19: in an iteration, setup is reached only from the grace wait that
\* follows a create that exited 0, or from a describe that returned READY
\* with force-run set; a launch follows a setup of the iteration that exited
\* 0; after a create or a setup that exited non-zero the iteration issues no
\* further call; and there is at most one setup and at most one launch.
C19_SetupLaunchDiscipline ==
  [][ /\ SetupLaunchInOrder'
      /\ (pc' = "setup" /\ pc # "setup") =>
           \/ (pc = "grace" /\ CreateSucceeded)
           \/ (pc = "poll" /\ state' = S_READY /\ cfg.force_run) ]_vars

\* C19 witness: the create exited 0, the setup that followed exited
\* non-zero, and the loop went back to the poll without a launch.
C19_Witness ==
  /\ Len(calls) = 3
  /\ calls[2] = Call("create", 0)
  /\ calls[3].op = "setup"
  /\ calls[3].rc # 0
  /\ pc = "poll"

(***************************************************************************)
(* The prober on results that match no pattern.                            *)
(***************************************************************************)
\* C20 (as claimed): when the output of describe matches none of the
\* not-found, permission and invalid-zone patterns, the prober raises
\* nothing: on exit 0 it returns the stripped stdout, or UNKNOWN when that
\* is empty; on a non-zero exit it returns ERROR, also when the output is
\* empty or only whitespace, and the loop issues no call on ERROR.
C20_ProberTotal ==
  (/\ calls # << >>
   /\ ~SearchNotFound(InspectedOutput(proc))
   /\ ~SearchPermission(InspectedOutput(proc))
   /\ ~SearchInvalidZone(InspectedOutput(proc)))
  => /\ DescribeTable[proc].raised = "none"
     /\ proc.returncode = 0 =>
          state = IF Strip(proc.stdout) = << >> THEN S_UNKNOWN ELSE Strip(proc.stdout)
     /\ proc.returncode # 0 =>
          (state = S_ERROR /\ Len(calls) = 1 /\ BackToPoll)

(***************************************************************************)
(* The loop under fairness: the watch process keeps taking steps, and      *)
(* remote calls eventually succeed (describe reports the state the cloud   *)
(* has, delete, create, setup and launch exit 0 when they can).            *)
(***************************************************************************)
\* the state string gcloud reports for the TPU
StateText(t) ==
  IF t = "ABSENT" THEN S_NOT_FOUND
  ELSE IF t = "CREATING" THEN S_CREATING
  ELSE IF t = "READY" THEN S_READY
  ELSE IF t = "PREEMPTED" THEN S_PREEMPTED
  ELSE S_STOPPED

\* the describe result reports the state the cloud has
Truthful(p) ==
  /\ DescribeTable[p].raised = "none"
  /\ DescribeTable[p].state = StateText(tpu)

LoopStep ==
  \/ Start
  \/ \E p \in DescribeSamples : Poll(p)
  \/ \E rc \in ExitCodes : Delete(rc)
  \/ \E rc \in ExitCodes : Create(rc)
  \/ Grace
  \/ \E conn \in BOOLEAN, in \in SetupInputs : Setup(conn, in)
  \/ \E rc \in ExitCodes : Launch(rc)
  \/ Sleep

SetupExitsZero ==
  \E in \in SetupInputs :
    /\ build_setup_script(fs, in).rc = 0
    /\ Setup(TRUE, in)

FairSpec ==
  /\ Init
  /\ [][Next]_vars
  /\ WF_vars(LoopStep)
  /\ SF_vars(\E p \in DescribeSamples : Truthful(p) /\ Poll(p))
  /\ SF_vars(Delete(0))
  /\ SF_vars(Create(0))
  /\ SF_vars(SetupExitsZero)
  /\ SF_vars(Launch(0))

\* C9 (as claimed): whenever the TPU is READY and no training has been
\* launched on it, the loop, whatever its configuration (force-run false
\* included), eventually issues the launch after a setup, unless the TPU
\* leaves READY, the loop ends or a remote call never returns first.
C9_SelfHealing ==
  (pc \in Running /\ tpu = "READY" /\ ~launched)
    ~> \/ (calls # << >> /\ Last(calls).op = "launch")
       \/ tpu # "READY"
       \/ pc \notin Running
       \/ hung

\* C13 (as claimed): every remote operation of the loop is bounded by a
\* timeout, so wherever the loop is, it eventually is back at the poll step
\* or has ended.
C13_NoCallBlocksForever ==
  (pc \in Running) ~> (pc = "poll" \/ pc \notin Running)

(***************************************************************************)
(* The chip count on its way to the arguments of create: the needs-create  *)
(* branch of the loop from the topology (watch.py 184) to the argument     *)
(* vector of gcloud (tpu.py 167-177), for every version and chip count.    *)
(***************************************************************************)
MaxChips == 64

ChipInit ==
  /\ WatchOff
  /\ chips \in {[NoRequest EXCEPT !.version = v, !.tpu_num = n] :
                  v \in Versions, n \in 0..MaxChips}
  /\ activity = NoProbe
  /\ environ = NoEnviron
  /\ cli = NoCommand

\* topo = _map_v4_topology(...) if v4; mgr.create(version, tpu_num, topo)
MapChips ==
  /\ ~chips.done
  /\ LET topo == Topology(chips)
         r == IF topo = "SystemExit" THEN "SystemExit"
              ELSE create_raises(chips.version, chips.tpu_num, topo)
     IN  chips' = [chips EXCEPT
                     !.done = TRUE,
                     !.raised = r,
                     !.args = IF r = "none"
                              THEN create_args(chips.version, chips.tpu_num, topo)
                              ELSE << >>]
  /\ UNCHANGED <<watchVars, activity, environ, cli>>

ChipNext == MapChips

ChipSpec == ChipInit /\ [][ChipNext]_vars

\* the argument that follows a flag
ArgOf(args, flag) ==
  LET i == CHOOSE k \in 1..Len(args) : args[k] = flag IN args[i + 1]

Digit == <<"0", "1", "2", "3", "4", "5", "6", "7", "8", "9">>

RECURSIVE Decimal(_)
Decimal(n) ==
  IF n < 10 THEN Digit[n + 1] ELSE Decimal(n \div 10) \o Digit[(n % 10) + 1]

\* C14: v4 maps the chip counts 4, 8, 16, 32 to the topologies 2x2x1, 2x2x2,
\* 2x2x4, 2x4x4 and every other count is fatal; v5 maps 16, 32, 64 to the
\* accelerator types v5litepod-16, -32, -64 and every other count is fatal;
\* v6 turns every count n into the accelerator type v6e-n.
C14_ChipCountMapping ==
  chips.done =>
    LET n == chips.tpu_num
        fatal == chips.raised \in {"SystemExit", "ValueError"}
    IN  /\ chips.version = "v4" =>
             /\ n = 4 => (~fatal /\ ArgOf(chips.args, "--topology") = "2x2x1")
             /\ n = 8 => (~fatal /\ ArgOf(chips.args, "--topology") = "2x2x2")
             /\ n = 16 => (~fatal /\ ArgOf(chips.args, "--topology") = "2x2x4")
             /\ n = 32 => (~fatal /\ ArgOf(chips.args, "--topology") = "2x4x4")
             /\ n \notin {4, 8, 16, 32} => fatal
        /\ chips.version = "v5" =>
             /\ n = 16 => (~fatal /\ ArgOf(chips.args, "--accelerator-type") = "v5litepod-16")
             /\ n = 32 => (~fatal /\ ArgOf(chips.args, "--accelerator-type") = "v5litepod-32")
             /\ n = 64 => (~fatal /\ ArgOf(chips.args, "--accelerator-type") = "v5litepod-64")
             /\ n \notin {16, 32, 64} => fatal
        /\ chips.version = "v6" =>
             /\ ~fatal
             /\ ArgOf(chips.args, "--accelerator-type") = "v6e-" \o Decimal(n)

\* C14 witness: the chip count 48 for v5 has been refused.
C14_Witness ==
  /\ chips.done
  /\ chips.version = "v5"
  /\ chips.tpu_num = 48
  /\ chips.raised = "ValueError"

(***************************************************************************)
(* tpu.py: TPUManager.check_activity, the idle/busy probe.                 *)
(***************************************************************************)
T_busy == <<"b", "u", "s", "y">>
T_idle == <<"i", "d", "l", "e">>

\* subprocess.run(..., capture_output=True, text=True), ssh.py 55: text mode
\* reads with universal newlines, "\r\n" and "\r" arrive as "\n".
RECURSIVE UniversalNewlines(_)
UniversalNewlines(s) ==
  IF s = << >> THEN << >>
  ELSE IF s[1] = "\r"
  THEN IF Len(s) >= 2 /\ s[2] = "\n"
       THEN <<"\n">> \o UniversalNewlines(SubSeq(s, 3, Len(s)))
       ELSE <<"\n">> \o UniversalNewlines(Tail(s))
  ELSE <<s[1]>> \o UniversalNewlines(Tail(s))

\* the CompletedProcess that gcloud_tpu_ssh returns for the bytes p of the
\* remote probe
Captured(p) ==
  [p EXCEPT !.stdout = UniversalNewlines(p.stdout),
            !.stderr = UniversalNewlines(p.stderr)]

\* re.search(r"(^|\r?\n)busy(\r?\n|$)", s), tpu.py 416: "^" is the start of
\* the text, "$" its end or the place before a final newline.
SearchBusy(s) ==
  \E i \in 1..Len(s) :
    /\ MatchAt(s, i, T_busy)
    /\ (i = 1 \/ s[i - 1] = "\n")
    /\ LET j == i + Len(T_busy)
       IN  \/ j = Len(s) + 1
           \/ (j <= Len(s) /\ s[j] = "\n")
           \/ (j + 1 <= Len(s) /\ s[j] = "\r" /\ s[j + 1] = "\n")

\* check_activity answering idle when the probe fails.
check_activity_FailOpen(p) ==
  IF p.returncode # 0 THEN FALSE ELSE SearchBusy(p.stdout)

\* Lines 413-416: a failed probe is busy, otherwise the search decides.
check_activity(p) ==
  IF p.returncode # 0 THEN TRUE ELSE SearchBusy(p.stdout)

\* The outputs of the remote probe: up to MaxTokens pieces, each a word, a
\* blank or a line terminator.
MaxTokens == 4

ProbeTokens == {T_busy, T_idle, <<"x">>, <<" ">>, <<"\n">>, <<"\r">>}

RECURSIVE ProbeOutputs(_)
ProbeOutputs(k) ==
  IF k = 0 THEN {<< >>}
  ELSE LET shorter == ProbeOutputs(k - 1)
       IN  shorter \cup {o \o t : o \in shorter, t \in ProbeTokens}

\* exit codes of the probe: 0, a failure of the script, timeout, ssh
ProbeCodes == {0, 1, 124, 255}

ActivityInit ==
  /\ WatchOff
  /\ chips = NoRequest
  /\ activity \in {[NoProbe EXCEPT !.proc = DescribeResult(rc, out, << >>)] :
                     rc \in ProbeCodes, out \in ProbeOutputs(MaxTokens)}
  /\ environ = NoEnviron
  /\ cli = NoCommand

CheckActivity ==
  /\ ~activity.done
  /\ activity' = [activity EXCEPT !.done = TRUE,
                                  !.busy = check_activity(Captured(activity.proc))]
  /\ UNCHANGED <<watchVars, chips, environ, cli>>

ActivityNext == CheckActivity

ActivitySpec == ActivityInit /\ [][ActivityNext]_vars

\* some line of the output is the word busy: the word stands between line
\* terminators (or the ends of the output)
SomeLineIsBusy(out) ==
  \E i \in 1..Len(out) :
    /\ MatchAt(out, i, T_busy)
    /\ (i = 1 \/ out[i - 1] \in LineBreaks)
    /\ (i + 4 > Len(out) \/ out[i + 4] \in LineBreaks)

\* C15: whatever the output, a probe that exits non-zero is reported busy;
\* a probe that exits 0 is reported busy exactly when some line of its
\* output is the word busy.
C15_ProbeFailSafe ==
  activity.done =>
    /\ activity.proc.returncode # 0 => activity.busy
    /\ activity.proc.returncode = 0 =>
         (activity.busy <=> SomeLineIsBusy(activity.proc.stdout))

\* C15 witness: the probe exited 255 with the output "idle" and is reported
\* busy.
C15_Witness ==
  /\ activity.done
  /\ activity.proc.returncode = 255
  /\ activity.proc.stdout = T_idle \o <<"\n">>
  /\ activity.busy

(***************************************************************************)
(* config.py and cli.py: one tpu-tools command, from the parse of its      *)
(* arguments to its exit code.  environ maps the names of the environment  *)
(* variables that are set to their values; cli.remote holds the exit codes *)
(* of the remote commands (gcloud, ssh) the command has run.               *)
(***************************************************************************)
\* the fields of TPUEnvConfig, in the order from_env reads them
RequiredVars ==
  <<"TPU_NAME", "TPU_PROJECT", "TPU_ZONE_v4", "TPU_ZONE_v5", "TPU_ZONE_v6",
    "TPU_BUCKET_v4", "TPU_BUCKET_v5", "TPU_BUCKET_v6", "TPU_SERVICE_ACCOUNT",
    "GH_REPO_NAME", "WANDB_API_KEY", "GH_TOKEN", "GH_OWNER">>

RequiredNames == {RequiredVars[i] : i \in 1..Len(RequiredVars)}

\* must_get, config.py 27-31: os.environ.get(name, "").strip(), and a
\* RuntimeError when nothing is left
must_get(e, name) ==
  LET val == Strip(IF name \in DOMAIN e THEN e[name] ELSE << >>)
  IN  [raised |-> IF val = << >> THEN "RuntimeError" ELSE "none", val |-> val]

\* from_env reading all variables but the last one.
from_env_SkipsLast(e) ==
  LET bad == {i \in 1..(Len(RequiredVars) - 1) : must_get(e, RequiredVars[i]).raised # "none"}
  IN  IF bad # {}
      THEN [raised |-> "RuntimeError", env |-> NoConfig]
      ELSE [raised |-> "none",
            env |-> [n \in RequiredNames |-> must_get(e, n).val]]

\* TPUEnvConfig.from_env, config.py 26-47: the thirteen must_get calls in
\* order; the first that fails raises.
from_env(e) ==
  LET bad == {i \in 1..Len(RequiredVars) : must_get(e, RequiredVars[i]).raised # "none"}
  IN  IF bad # {}
      THEN [raised |-> "RuntimeError", env |-> NoConfig]
      ELSE [raised |-> "none",
            env |-> [n \in RequiredNames |-> must_get(e, n).val]]

\* The environments: every variable is set to a value, but for up to MaxBad
\* of them, which are unset or set to blanks.
MaxBad == 2

V_set == <<" ", "v">>
V_blank == <<" ", "\t">>

Environs ==
  UNION {{[n \in RequiredNames \ unset |-> IF n \in bad THEN V_blank ELSE V_set] :
            unset \in SUBSET bad} :
           bad \in {b \in SUBSET RequiredNames : Cardinality(b) <= MaxBad}}

\* The subcommands of build_parser ("raw" is v4, v5 or v6 with a remote
\* command, "setup" is v4, v5 or v6 with the word setup), and "usage" for
\* an argument vector that argparse refuses.
Commands ==
  {"watch", "list", "delete", "stop", "start", "delete-name", "tmux", "attach",
   "tmux-ls", "tail", "tmux-kill-all", "kill-jax", "clean-tmp", "nuke", "raw",
   "setup"}

\* exit codes of a remote command: success, failure, interrupted
\* (run_streaming returns 130 on KeyboardInterrupt), ssh cannot connect
RemoteCodes == {0, 1, 130, 255}

\* the remote commands a subcommand runs: nuke_all runs three
NumCalls(cmd) == IF cmd = "nuke" THEN 3 ELSE 1

\* tpu.py 346-350: ok = tmux_kill_all(); ok = kill_jax() and ok;
\* ok = clean_jax_tmp() and ok
nuke_all(rcs) ==
  LET ok1 == rcs[1] = 0
      ok2 == (rcs[2] = 0) /\ ok1
      ok3 == (rcs[3] = 0) /\ ok2
  IN  ok3

\* cli.main, lines 95-141: the value main returns for a subcommand whose
\* remote commands exited with rcs.
CliResult(cmd, rcs) ==
  IF cmd = "list" THEN rcs[1]
  ELSE IF cmd = "delete" THEN (IF rcs[1] = 0 THEN 0 ELSE 1)
  ELSE IF cmd = "stop" THEN (IF rcs[1] = 0 THEN 0 ELSE 1)
  ELSE IF cmd = "start" THEN (IF rcs[1] = 0 THEN 0 ELSE 1)
  ELSE IF cmd = "delete-name" THEN rcs[1]
  ELSE IF cmd = "tmux" THEN (IF rcs[1] = 0 THEN 0 ELSE 1)
  ELSE IF cmd = "attach" THEN rcs[1]
  ELSE IF cmd = "tmux-ls" THEN (IF rcs[1] = 0 THEN 0 ELSE 1)
  ELSE IF cmd = "tail" THEN rcs[1]
  ELSE IF cmd = "tmux-kill-all" THEN (IF rcs[1] = 0 THEN 0 ELSE 1)
  ELSE IF cmd = "kill-jax" THEN (IF rcs[1] = 0 THEN 0 ELSE 1)
  ELSE IF cmd = "clean-tmp" THEN (IF rcs[1] = 0 THEN 0 ELSE 1)
  ELSE IF cmd = "nuke" THEN (IF nuke_all(rcs) THEN 0 ELSE 1)
  ELSE IF cmd = "setup" THEN rcs[1]
  ELSE rcs[1]

CliInit ==
  /\ WatchOff
  /\ chips = NoRequest
  /\ activity = NoProbe
  /\ environ \in Environs
  /\ cli \in {[NoCommand EXCEPT !.cmd = c, !.at = "parse"] :
                c \in Commands \cup {"usage"}}

\* cli.py 84-86 (and watch.py 242-244 for watch): argparse exits 2 on an
\* argument vector it refuses.
CliParse ==
  /\ cli.at = "parse"
  /\ cli' = IF cli.cmd = "usage"
            THEN [cli EXCEPT !.at = "exit", !.raised = "SystemExit2", !.code = 2]
            ELSE [cli EXCEPT !.at = "from_env"]
  /\ UNCHANGED <<watchVars, chips, activity, environ>>

\* cli.py 92, and watch.py 249 for watch: the configuration is loaded; an
\* uncaught RuntimeError ends the process with exit code 1.
CliFromEnv ==
  /\ cli.at = "from_env"
  /\ LET r == from_env(environ)
     IN  cli' = IF r.raised # "none"
               THEN [cli EXCEPT !.at = "exit", !.raised = r.raised, !.code = 1]
               ELSE [cli EXCEPT !.env = r.env,
                                !.at = IF cli.cmd = "watch" THEN "watch_and_run"
                                       ELSE "run"]
  /\ UNCHANGED <<watchVars, chips, activity, environ>>

\* cli.py 95-141: the subcommand runs its remote commands and main returns.
CliRun(rcs) ==
  /\ cli.at = "run"
  /\ Len(rcs) = NumCalls(cli.cmd)
  /\ cli' = [cli EXCEPT !.remote = rcs, !.code = CliResult(cli.cmd, rcs),
                        !.at = "exit"]
  /\ UNCHANGED <<watchVars, chips, activity, environ>>

\* the ways a watch loop ends
WatchEnds ==
  {<<"returned", "none">>, <<"signalled", "SystemExit0">>,
   <<"fatal", "SystemExit">>, <<"fatal", "ValueError">>}

\* watch.py 250-251, cli.py 90: watch_and_run ends and the process exits.
CliWatch(end) ==
  /\ cli.at = "watch_and_run"
  /\ cli' = [cli EXCEPT !.at = "exit", !.code = ExitStatusOf(end[1], end[2])]
  /\ UNCHANGED <<watchVars, chips, activity, environ>>

CliNext ==
  \/ CliParse
  \/ CliFromEnv
  \/ \E rcs \in UNION {[1..n -> RemoteCodes] : n \in {1, 3}} : CliRun(rcs)
  \/ \E end \in WatchEnds : CliWatch(end)

CliSpec == CliInit /\ [][CliNext]_vars

\* every required variable is set to something other than blanks
AllSet(e) ==
  \A n \in RequiredNames :
    /\ n \in DOMAIN e
    /\ \E i \in 1..Len(e[n]) : e[n][i] \notin Whitespace

\* C16: when one of the thirteen required variables is unset or blank, the
\* command - watch included - ends with the RuntimeError of from_env and has
\* run no remote command; a command runs remote commands, and watch enters
\* its loop, only with a configuration loaded from an environment that has
\* them all; and a loaded configuration never changes.
C16_ConfigFailsFast ==
  [][ /\ (~AllSet(environ) /\ cli'.at \notin {"parse", "from_env"} /\ cli'.cmd # "usage")
         => (cli'.at = "exit" /\ cli'.raised = "RuntimeError" /\ cli'.remote = << >>)
      /\ (cli'.at \in {"run", "watch_and_run"} \/ cli'.remote # << >>)
         => (AllSet(environ) /\ cli'.env # NoConfig /\ DOMAIN cli'.env = RequiredNames)
      /\ cli.env # NoConfig => cli'.env = cli.env ]_vars

\* C16 witness: a delete with GH_OWNER blank has ended in the RuntimeError,
\* no remote command run.
C16_Witness ==
  /\ cli.cmd = "delete"
  /\ cli.at = "exit"
  /\ cli.raised = "RuntimeError"
  /\ "GH_OWNER" \in DOMAIN environ
  /\ environ["GH_OWNER"] = V_blank
  /\ cli.remote = << >>

\* C17 (as claimed): every command exits with a code in {0, 1, 2, 130}: 2 on
\* a usage error, 0 when its remote commands succeeded, 130 when a remote
\* command was interrupted, 1 on any other failure.
C17_ExitCodeInFour ==
  cli.at = "exit" =>
    /\ cli.code \in {0, 1, 2, 130}
    /\ cli.cmd = "usage" => cli.code = 2
    /\ cli.remote # << >> =>
         IF \A i \in 1..Len(cli.remote) : cli.remote[i] = 0 THEN cli.code = 0
         ELSE IF \E i \in 1..Len(cli.remote) : cli.remote[i] = 130 THEN cli.code = 130
         ELSE cli.code = 1

=============================================================================
